---- MODULE Spec2Model ----
(***************************************************************************)
(* Model of the modular-arithmetic visualizer (src/src/main.rs).           *)
(*                                                                         *)
(* A Point of the source is {x, y, label} with x = sin(deg) * scale and    *)
(* y = cos(deg) * scale.  The model keeps the polar form the source        *)
(* computes x and y from: deg (the integer degree i of the inner loop) and *)
(* scale (scale_factor, an integer for every input: 8 * modulus + 40 * nr  *)
(* or 320 + 40 * nr).                                                      *)
(*                                                                         *)
(* model.time is an f32 that update() advances by 0.04 per frame.  The     *)
(* model keeps its exact f32 value as whole + frac * 2^-28 and rounds      *)
(* every addition to 24 significant bits, ties to even, as the hardware    *)
(* does; `time as usize` is the whole part.                                *)
(***************************************************************************)
EXTENDS Integers, Sequences, FiniteSets, TLC

VARIABLES cycle, natural, modulus, result, points, time,
          new_natural, new_modulus, new_cycle,
          pc, frame, call

vars == <<cycle, natural, modulus, result, points, time,
          new_natural, new_modulus, new_cycle, pc, frame, call>>

model_vars == <<cycle, natural, modulus, result, points, time,
                new_natural, new_modulus, new_cycle>>

\* ---------------------------------------------------------------------------
\* Program constants
\* ---------------------------------------------------------------------------
CIRCLE_SIZE == 32
RING_SPACING == 40
RING_RADIUS_SCALE == 4
CycleRingRadius == 320
DegreesInCircle == 360
SliderMin == 1
SliderMax == 40
\* 0.04f32 = 10737418 * 2^-28
TimeStepBits == 10737418
\* 2^28: number of frac units in one whole time unit
FracUnit == 268435456
\* t_factor = 0.05, in percent
TFactorPct == 5

\* ---------------------------------------------------------------------------
\* Bounds of the model
\* ---------------------------------------------------------------------------
\* the session's Operand slider is modelled as 1..MaxNatural
MaxNatural == 3
\* the session's Modulus slider is modelled as 1..MaxModulus
MaxModulus == 3
\* the clock stops advancing once `time as usize` is TimeSlack past the number
\* of points of the layout
TimeSlack == 2
\* largest natural handed to generate_points when it is checked on its own
GenMaxNatural == 40

\* ---------------------------------------------------------------------------
\* Helpers
\* ---------------------------------------------------------------------------
Min(a, b) == IF a < b THEN a ELSE b

\* a floor division where the source rounds up
DivFloor(a, b) == a \div b

\* u32::div_ceil, divisor >= 1
DivCeil(a, b) == (a + b - 1) \div b

\* usize::saturating_sub
SaturatingSub(a, b) == IF a >= b THEN a - b ELSE 0

\* largest power of two <= w, for w >= 1
RECURSIVE HighBit(_)
HighBit(w) == IF w <= 1 THEN 1 ELSE 2 * HighBit(w \div 2)

\* spacing of neighbouring f32 values around whole + frac * 2^-28, in frac units
Ulp(whole, frac) ==
    IF whole >= 1 THEN 32 * HighBit(whole)
    ELSE IF frac < 16777216 THEN 1
    ELSE IF frac < 33554432 THEN 2
    ELSE IF frac < 67108864 THEN 4
    ELSE IF frac < 134217728 THEN 8
    ELSE 16

\* model.time += 0.04 in f32 arithmetic (round to nearest, ties to even)
AddTimeStep(t) ==
    LET f  == t.frac + TimeStepBits
        w  == t.whole + (f \div FracUnit)
        f2 == f % FracUnit
        u  == Ulp(w, f2)
        q  == f2 \div u
        r  == f2 % u
        q2 == IF 2 * r > u \/ (2 * r = u /\ q % 2 = 1) THEN q + 1 ELSE q
        f3 == q2 * u
    IN  IF f3 = FracUnit THEN [whole |-> w + 1, frac |-> 0]
        ELSE [whole |-> w, frac |-> f3]

TimeZero == [whole |-> 0, frac |-> 0]

\* model.time as usize
TimeAsUsize(t) == t.whole

\* ---------------------------------------------------------------------------
\* generate_points
\* ---------------------------------------------------------------------------
RingRadius(c, m) ==
    IF c THEN CycleRingRadius ELSE (CIRCLE_SIZE * m) \div RING_RADIUS_SCALE

\* how many values (0..n).step_by(step) yields, step >= 1
StepByCount(n, step) == (n + step - 1) \div step

\* the ring loop without its `number >= current_ring_max` break
RingSlotsNoBreak(m, stride, scale_factor, nr, st) ==
    LET taken == StepByCount(DegreesInCircle, stride)
    IN  [number |-> st.number + taken,
         points |-> st.points \o
             [k \in 1..taken |->
                 [deg |-> (k - 1) * stride, scale |-> scale_factor,
                  label |-> st.number + (k - 1)]]]

\* for i in (0..360).step_by(stride) { ... } of ring nr: slot k (from 0) has
\* i = k * stride, and the loop leaves at the first slot where
\* number >= current_ring_max, or when the slots are used up
RingSlots(m, stride, scale_factor, nr, st) ==
    LET current_ring_max == m * (nr + 1)
        slots == StepByCount(DegreesInCircle, stride)
        room  == IF st.number >= current_ring_max THEN 0
                 ELSE current_ring_max - st.number
        taken == Min(slots, room)
    IN  [number |-> st.number + taken,
         points |-> st.points \o
             [k \in 1..taken |->
                 [deg |-> (k - 1) * stride, scale |-> scale_factor,
                  label |-> st.number + (k - 1)]]]

\* for nr in 0..num_rings { ... }, from ring nr on
RECURSIVE RingLoop(_, _, _, _, _, _)
RingLoop(m, stride, ring_radius, num_rings, nr, st) ==
    IF nr >= num_rings THEN st
    ELSE RingLoop(m, stride, ring_radius, num_rings, nr + 1,
             RingSlots(m, stride, ring_radius + nr * RING_SPACING, nr, st))

\* The call's outcome: a panic (division by zero for modulus = 0, step_by(0)
\* for a stride of 0) or the returned vector.
GeneratePoints(c, n, m) ==
    IF m = 0 THEN [outcome |-> "panicked", points |-> <<>>]
    ELSE LET num_rings == IF c THEN 1 ELSE DivCeil(n + 1, m)
             stride == DegreesInCircle \div m
         IN  IF stride = 0 THEN [outcome |-> "panicked", points |-> <<>>]
             ELSE [outcome |-> "returned",
                   points |-> RingLoop(m, stride, RingRadius(c, m), num_rings, 0,
                                  [number |-> 0, points |-> <<>>]).points]

\* ---------------------------------------------------------------------------
\* compute_rings
\* ---------------------------------------------------------------------------
RingOpacity(t, ppr, nr) == IF SaturatingSub(t, 1) \div ppr >= nr THEN 1 ELSE 0

\* Vec<(scale_factor, opacity)>, largest ring first
ComputeRings(n, m, points_len, t) ==
    LET num_rings == DivCeil(n + 1, m)
        ppr == points_len \div num_rings
    IN  [k \in 1..num_rings |->
            LET nr == num_rings - k IN
            <<(CIRCLE_SIZE * m) \div RING_RADIUS_SCALE + nr * RING_SPACING,
              RingOpacity(t, ppr, nr)>>]

\* ---------------------------------------------------------------------------
\* view helpers
\* ---------------------------------------------------------------------------
\* the points draw_points draws, in order
DrawPoints(c, pts, t) ==
    IF c THEN pts ELSE SubSeq(pts, 1, Min(Len(pts), t))

\* start + t_factor * (end - start), kept symbolically
Lerp(a, b) == [at |-> a, toward |-> b, pct |-> TFactorPct]

ShrinkArrow(start_point, end_point) ==
    [start |-> Lerp(start_point, end_point), end |-> Lerp(end_point, start_point)]

\* the early return taken while the clock is past the points, not before
ArrowGuardFlipped(t, points_len) == t >= points_len

\* the early return with < for <=
ArrowGuardStrict(t, points_len) == t < points_len

ArrowGuard(t, points_len) == t <= points_len

MatchingPoints(pts, m, res) ==
    SelectSeq(pts, LAMBDA point : point.label % m = res)

\* draw_arrow_reduction with the arrow's two ends exchanged
DrawArrowReductionSwapped(pts, m, res, t) ==
    IF ArrowGuard(t, Len(pts)) THEN [arrows |-> <<>>, log |-> FALSE]
    ELSE LET matching_points == MatchingPoints(pts, m, res) IN
         IF matching_points = <<>> THEN [arrows |-> <<>>, log |-> TRUE]
         ELSE LET inner_point == matching_points[1]
                  outer_point == matching_points[Len(matching_points)]
              IN  [arrows |-> <<ShrinkArrow(inner_point, outer_point)>>,
                   log |-> FALSE]

\* the arrows draw_arrow_reduction draws (none or one) and whether it logs
DrawArrowReduction(pts, m, res, t) ==
    IF ArrowGuard(t, Len(pts)) THEN [arrows |-> <<>>, log |-> FALSE]
    ELSE LET matching_points == MatchingPoints(pts, m, res) IN
         IF matching_points = <<>> THEN [arrows |-> <<>>, log |-> TRUE]
         ELSE LET inner_point == matching_points[1]
                  outer_point == matching_points[Len(matching_points)]
              IN  [arrows |-> <<ShrinkArrow(outer_point, inner_point)>>,
                   log |-> FALSE]

\* draw_cycle_arrows stepping to the next point instead of adding natural
DrawCycleArrowsNext(pts, n, m, t) ==
    [k \in 1..Min(Len(pts), t) |->
        LET i == k - 1
            end == (i + 1) % m
        IN  ShrinkArrow(pts[i + 1], pts[end + 1])]

\* the arrows draw_cycle_arrows draws, in order
DrawCycleArrows(pts, n, m, t) ==
    [k \in 1..Min(Len(pts), t) |->
        LET i == k - 1
            end == (i + n) % m
        IN  ShrinkArrow(pts[i + 1], pts[end + 1])]

\* ---------------------------------------------------------------------------
\* The session: model(), update(), view()
\* ---------------------------------------------------------------------------
NoFrame == [drawn |-> FALSE, rings |-> <<>>, points |-> <<>>,
            arrows |-> <<>>, cycle_arrows |-> <<>>, log |-> FALSE]

NoCall == [fn |-> "none"]

\* what one frame of the egui panel can deliver: the pointer acts on at most
\* one widget
UiEvents ==
    {[widget |-> "none", value |-> 0]}
    \cup {[widget |-> "operand", value |-> v] : v \in SliderMin..MaxNatural}
    \cup {[widget |-> "modulus", value |-> v] : v \in SliderMin..MaxModulus}
    \cup {[widget |-> "calculation", value |-> 0],
          [widget |-> "cycles", value |-> 0],
          [widget |-> "generate", value |-> 0]}

Init ==
    /\ cycle = FALSE
    /\ natural = 7
    /\ modulus = 3
    /\ result = 7 % 3
    /\ points = GeneratePoints(FALSE, 7, 3).points
    /\ time = TimeZero
    /\ new_natural = 7
    /\ new_modulus = 3
    /\ new_cycle = FALSE
    /\ pc = "update"
    /\ frame = NoFrame
    /\ call = NoCall

\* update() whose Generate branch leaves model.result as it was
UpdateStaleResult(ev) ==
    /\ pc = "update"
    /\ ev.widget = "generate" \/ TimeAsUsize(time) < Len(points) + TimeSlack
    /\ new_natural' = IF ev.widget = "operand" THEN ev.value ELSE new_natural
    /\ new_modulus' = IF ev.widget = "modulus" THEN ev.value ELSE new_modulus
    /\ new_cycle' = IF ev.widget = "calculation" THEN FALSE
                    ELSE IF ev.widget = "cycles" THEN TRUE
                    ELSE new_cycle
    /\ IF ev.widget = "generate"
       THEN /\ cycle' = new_cycle'
            /\ natural' = new_natural'
            /\ modulus' = new_modulus'
            /\ result' = result
            /\ points' = GeneratePoints(cycle', natural', modulus').points
            /\ time' = TimeZero
       ELSE /\ time' = AddTimeStep(time)
            /\ UNCHANGED <<cycle, natural, modulus, result, points>>
    /\ pc' = "view"
    /\ UNCHANGED <<frame, call>>

Update(ev) ==
    /\ pc = "update"
    /\ ev.widget = "generate" \/ TimeAsUsize(time) < Len(points) + TimeSlack
    /\ new_natural' = IF ev.widget = "operand" THEN ev.value ELSE new_natural
    /\ new_modulus' = IF ev.widget = "modulus" THEN ev.value ELSE new_modulus
    /\ new_cycle' = IF ev.widget = "calculation" THEN FALSE
                    ELSE IF ev.widget = "cycles" THEN TRUE
                    ELSE new_cycle
    /\ IF ev.widget = "generate"
       THEN /\ cycle' = new_cycle'
            /\ natural' = new_natural'
            /\ modulus' = new_modulus'
            /\ result' = natural' % modulus'
            /\ points' = GeneratePoints(cycle', natural', modulus').points
            /\ time' = TimeZero
       ELSE /\ time' = AddTimeStep(time)
            /\ UNCHANGED <<cycle, natural, modulus, result, points>>
    /\ pc' = "view"
    /\ UNCHANGED <<frame, call>>

View ==
    /\ pc = "view"
    /\ LET t == TimeAsUsize(time)
           arrow == DrawArrowReduction(points, modulus, result, t)
       IN  frame' =
             IF cycle
             THEN [drawn |-> TRUE, rings |-> <<>>,
                   points |-> DrawPoints(cycle, points, t),
                   arrows |-> <<>>,
                   cycle_arrows |-> DrawCycleArrows(points, natural, modulus, t),
                   log |-> FALSE]
             ELSE [drawn |-> TRUE,
                   rings |-> ComputeRings(natural, modulus, Len(points), t),
                   points |-> DrawPoints(cycle, points, t),
                   arrows |-> arrow.arrows,
                   cycle_arrows |-> <<>>,
                   log |-> arrow.log]
    /\ pc' = "update"
    /\ UNCHANGED <<model_vars, call>>

Next == (\E ev \in UiEvents : Update(ev)) \/ View

Spec == Init /\ [][Next]_vars

\* ---------------------------------------------------------------------------
\* generate_points on its own: any caller, any arguments
\* ---------------------------------------------------------------------------
GenModuli == (0..SliderMax) \cup {DegreesInCircle, DegreesInCircle + 1}

GenCalls ==
    {[fn |-> "generate_points", cycle |-> c, natural |-> n, modulus |-> m,
      outcome |-> "pending", points |-> <<>>] :
        c \in BOOLEAN, n \in 0..GenMaxNatural, m \in GenModuli}

InitGen ==
    /\ cycle = FALSE
    /\ natural = 7
    /\ modulus = 3
    /\ result = 7 % 3
    /\ points = GeneratePoints(FALSE, 7, 3).points
    /\ time = TimeZero
    /\ new_natural = 7
    /\ new_modulus = 3
    /\ new_cycle = FALSE
    /\ pc = "call"
    /\ frame = NoFrame
    /\ call \in GenCalls

CallGeneratePoints ==
    /\ pc = "call"
    /\ call.outcome = "pending"
    /\ LET r == GeneratePoints(call.cycle, call.natural, call.modulus)
       IN  call' = [call EXCEPT !.outcome = r.outcome, !.points = r.points]
    /\ UNCHANGED <<model_vars, pc, frame>>

NextGen == CallGeneratePoints

SpecGen == InitGen /\ [][NextGen]_vars

\* ---------------------------------------------------------------------------
\* Properties of generate_points (checked under SpecGen)
\* ---------------------------------------------------------------------------
CallDone == pc = "call" /\ call.outcome # "pending"

\* ceil(a / b) for b >= 1, written without the model's DivCeil
CeilQuot(a, b) == IF a % b = 0 THEN a \div b ELSE (a \div b) + 1

\* the radii on which the points of a layout lie
RadiiOf(pts) == {pts[k].scale : k \in 1..Len(pts)}

\* radius of ring nr of the Reduction layout
ReductionRadius(m, nr) == 8 * m + 40 * nr

\* C1 as stated: for every natural >= 0 and modulus >= 1 the Reduction layout
\* has exactly natural + 1 points, on ceil((natural + 1) / modulus) rings.
C1_Original ==
    (CallDone /\ ~call.cycle /\ call.modulus >= 1) =>
        /\ call.outcome = "returned"
        /\ Len(call.points) = call.natural + 1
        /\ Cardinality(RadiiOf(call.points))
               = CeilQuot(call.natural + 1, call.modulus)

\* C1 amended: for modulus in 1..360 the Reduction layout has
\* modulus * ceil((natural + 1) / modulus) points on ceil((natural + 1) /
\* modulus) rings; every ring, the last one included, is full, so the layout
\* has at least natural + 1 points and the point labelled natural lies on the
\* last ring.
C1_ReductionLayoutSize ==
    (CallDone /\ ~call.cycle /\ call.modulus \in 1..DegreesInCircle) =>
        LET rings == CeilQuot(call.natural + 1, call.modulus) IN
        /\ call.outcome = "returned"
        /\ Len(call.points) = call.modulus * rings
        /\ Len(call.points) >= call.natural + 1
        /\ Cardinality(RadiiOf(call.points)) = rings
        /\ call.points[call.natural + 1].label = call.natural
        /\ call.points[call.natural + 1].scale
               = ReductionRadius(call.modulus, rings - 1)

\* a Reduction layout whose last ring holds labels past natural
C1_Witness ==
    /\ CallDone /\ ~call.cycle
    /\ call.natural = 7 /\ call.modulus = 3
    /\ Len(call.points) = 9
    /\ call.points[9].label = 8

\* C2: for modulus in 1..=40, generate_points(false, natural, modulus) returns
\* modulus * ceil((natural + 1) / modulus) points, ring nr holds exactly the
\* labels nr * modulus .. (nr + 1) * modulus - 1, and points[i].label = i.
C2_FullRingsLabelled ==
    (CallDone /\ ~call.cycle /\ call.modulus \in SliderMin..SliderMax) =>
        /\ call.outcome = "returned"
        /\ Len(call.points)
               = call.modulus * CeilQuot(call.natural + 1, call.modulus)
        /\ \A k \in 1..Len(call.points) :
               /\ call.points[k].label = k - 1
               /\ call.points[k].scale
                      = ReductionRadius(call.modulus, (k - 1) \div call.modulus)
        /\ call.points # <<>>
        /\ call.points[Len(call.points)].label = Len(call.points) - 1

\* two rings of a modulus that does not divide 360, whose stride leaves room
\* for an eighth slot
C2_Witness ==
    /\ CallDone /\ ~call.cycle
    /\ call.modulus = 7 /\ call.natural = 10
    /\ DegreesInCircle % call.modulus # 0
    /\ Len(call.points) = 14
    /\ call.points[8].scale = ReductionRadius(7, 1)

\* C3 as stated: for every modulus >= 1 and every natural the Cycle layout
\* completes with exactly modulus points, labelled 0..modulus-1, on one ring.
C3_CycleLayout ==
    (CallDone /\ call.cycle /\ call.modulus >= 1) =>
        /\ call.outcome = "returned"
        /\ Len(call.points) = call.modulus
        /\ \A k \in 1..Len(call.points) :
               /\ call.points[k].label = k - 1
               /\ call.points[k].scale = CycleRingRadius

\* C4 as stated: a modulus of 0 is rejected with an InvalidConfiguration
\* error before any geometry is computed, and the session's state stays as it
\* was.
C4_ZeroModulusRejected ==
    (CallDone /\ call.modulus = 0) =>
        /\ call.outcome = "InvalidConfiguration"
        /\ call.points = <<>>
        /\ cycle = FALSE /\ natural = 7 /\ modulus = 3 /\ result = 1
        /\ Len(points) = 9 /\ time = TimeZero

\* ---------------------------------------------------------------------------
\* Properties of the session (checked under Spec)
\* ---------------------------------------------------------------------------
\* view() has rendered the model as it is now
FrameFresh == pc = "update" /\ frame.drawn

\* opacity that compute_rings gave ring nr (the vector is outermost first)
OpacityOf(nr) == frame.rings[Len(frame.rings) - nr][2]

\* C5 as stated: ring nr is opaque iff floor((v - 1) / pointsPerRing) >= nr
\* for the whole number v of elapsed time units, so at v = 0 every ring,
\* ring 0 included, is transparent.
C5_RingGate ==
    (FrameFresh /\ ~cycle) =>
        LET v == TimeAsUsize(time)
            ppr == Len(points) \div Len(frame.rings)
        IN  /\ \A nr \in 0..(Len(frame.rings) - 1) :
                   /\ OpacityOf(nr) \in {0, 1}
                   /\ (OpacityOf(nr) = 1) <=> ((v - 1) \div ppr >= nr)
            /\ (v = 0) => \A nr \in 0..(Len(frame.rings) - 1) : OpacityOf(nr) = 0

\* C6: in Reduction mode, a frame that draws the highlight arrow draws every
\* point of model.points.
C6_ArrowOnlyWhenAllPointsDrawn ==
    (FrameFresh /\ ~cycle /\ frame.arrows # <<>>) => frame.points = points

\* a Reduction frame with the arrow and the whole layout on screen
C6_Witness ==
    /\ FrameFresh /\ ~cycle
    /\ frame.arrows # <<>>
    /\ Len(frame.points) = Len(points)
    /\ Len(points) >= 2

\* elapsed time, as the real number it is, exceeds n
TimeExceeds(n) == time.whole > n \/ (time.whole = n /\ time.frac > 0)

\* C7 as stated: after committing natural = 7, modulus = 3 in Reduction mode
\* the frame at elapsed time 9 draws the arrow, and in general every frame
\* whose elapsed time strictly exceeds the number of points draws it.
C7_Original ==
    (FrameFresh /\ ~cycle) =>
        /\ (natural = 7 /\ modulus = 3 /\ TimeAsUsize(time) = 9)
               => frame.arrows # <<>>
        /\ TimeExceeds(Len(points)) => frame.arrows # <<>>

\* C7 amended: a Reduction frame draws the arrow exactly when the whole
\* number of elapsed time units (time as usize) exceeds the number of points
\* of the layout; natural = 7, modulus = 3 has 9 points, so the frames at
\* elapsed time 9 draw no arrow and those from elapsed time 10 on do.
C7_ArrowWhenClockPastPoints ==
    (FrameFresh /\ ~cycle) =>
        /\ (Len(frame.arrows) = 1) <=> (TimeAsUsize(time) > Len(points))
        /\ Len(frame.arrows) <= 1
        /\ (natural = 7 /\ modulus = 3) =>
               /\ Len(points) = 9
               /\ (frame.arrows # <<>>) <=> (TimeAsUsize(time) >= 10)

\* natural = 7, modulus = 3 at elapsed time 10: the arrow is on screen
C7_Witness ==
    /\ FrameFresh /\ ~cycle
    /\ natural = 7 /\ modulus = 3
    /\ TimeAsUsize(time) = 10
    /\ Len(frame.arrows) = 1

\* C8: in Reduction mode a drawn arrow starts at the point labelled natural,
\* the outermost point congruent to natural mod modulus, and ends at the
\* point labelled natural mod modulus, the innermost one; the congruence
\* filter is never empty.
C8_ArrowEnds ==
    (FrameFresh /\ ~cycle) =>
        /\ ~frame.log
        /\ \E k \in 1..Len(points) : points[k].label % modulus = natural % modulus
        /\ \A a \in 1..Len(frame.arrows) :
               LET from == frame.arrows[a].start.at
                   to   == frame.arrows[a].end.at
               IN  /\ from.label = natural
                   /\ to.label = natural % modulus
                   /\ from = points[natural + 1]
                   /\ to = points[(natural % modulus) + 1]
                   /\ frame.arrows[a].start.toward = to
                   /\ frame.arrows[a].end.toward = from
                   /\ \A k \in 1..Len(points) :
                          points[k].label % modulus = natural % modulus
                              => /\ points[k].scale <= from.scale
                                 /\ points[k].scale >= to.scale

\* an arrow between two different rings
C8_Witness ==
    /\ FrameFresh /\ ~cycle
    /\ Len(frame.arrows) = 1
    /\ natural >= modulus
    /\ frame.arrows[1].start.at.label = natural
    /\ frame.arrows[1].end.at.label < modulus
    /\ frame.arrows[1].start.at.scale > frame.arrows[1].end.at.scale

\* C9 as stated: in Cycle mode every frame draws as many arrows as points,
\* both min(floor(elapsed time), modulus), and the arrow leaving point i ends
\* at point (i + natural) mod modulus.
C9_Original ==
    (FrameFresh /\ cycle) =>
        /\ Len(frame.cycle_arrows) = Len(frame.points)
        /\ Len(frame.points) = Min(TimeAsUsize(time), modulus)
        /\ \A k \in 1..Len(frame.cycle_arrows) :
               /\ frame.cycle_arrows[k].start.at.label = k - 1
               /\ frame.cycle_arrows[k].end.at.label = ((k - 1) + natural) % modulus

\* C9 amended: in Cycle mode every frame draws all modulus points, whatever
\* the elapsed time; the number of arrows is min(floor(elapsed time),
\* modulus), one more per time unit, and the arrow leaving point i ends at
\* point (i + natural) mod modulus, which is a point of the layout.
C9_CycleArrowsPaced ==
    (FrameFresh /\ cycle) =>
        /\ frame.points = points
        /\ Len(frame.points) = modulus
        /\ Len(frame.cycle_arrows) = Min(TimeAsUsize(time), modulus)
        /\ frame.arrows = <<>> /\ frame.rings = <<>>
        /\ \A k \in 1..Len(frame.cycle_arrows) :
               LET dest == ((k - 1) + natural) % modulus IN
               /\ frame.cycle_arrows[k].start.at = points[k]
               /\ frame.cycle_arrows[k].start.at.label = k - 1
               /\ dest + 1 \in 1..Len(points)
               /\ frame.cycle_arrows[k].end.at = points[dest + 1]
               /\ frame.cycle_arrows[k].end.at.label = dest

\* a Cycle frame with all three points and only two arrows, the second of
\* which wraps around
C9_Witness ==
    /\ FrameFresh /\ cycle
    /\ modulus = 3 /\ natural = 2
    /\ Len(frame.points) = 3
    /\ Len(frame.cycle_arrows) = 2
    /\ frame.cycle_arrows[2].end.at.label = 0

ActiveConsistent ==
    /\ modulus >= 1
    /\ result = natural % modulus
    /\ points = GeneratePoints(cycle, natural, modulus).points
    /\ GeneratePoints(cycle, natural, modulus).outcome = "returned"

\* one step of update(): either the clock advances and the active state is
\* untouched, or the active state is replaced from the staged values of the
\* same frame and the clock is 0
UpdateStep ==
    (pc = "update" /\ pc' = "view") =>
        \/ /\ time' = AddTimeStep(time)
           /\ time' # TimeZero
           /\ UNCHANGED <<cycle, natural, modulus, result, points>>
        \/ /\ time' = TimeZero
           /\ cycle' = new_cycle'
           /\ natural' = new_natural'
           /\ modulus' = new_modulus'
           /\ result' = new_natural' % new_modulus'
           /\ points' = GeneratePoints(new_cycle', new_natural', new_modulus').points

\* view() changes nothing of the model
ViewStep == (pc = "view") => UNCHANGED model_vars

\* C10: the active state stays consistent (result = natural mod modulus,
\* modulus >= 1, points = generate_points(cycle, natural, modulus)); a frame
\* without a Generate click changes none of cycle, natural, modulus, result,
\* points; a Generate click replaces them together from the staged values and
\* leaves time at 0.
C10_ActiveStateConsistent ==
    /\ []ActiveConsistent
    /\ [][UpdateStep /\ ViewStep]_vars

\* a committed configuration that differs from the initial one in every field
C10_Witness ==
    /\ pc = "view"
    /\ time = TimeZero
    /\ cycle /\ natural = 2 /\ modulus = 2 /\ result = 0
    /\ Len(points) = 2

====
